---- MODULE Spec2Model ----
(***************************************************************************)
(* A model of the raytracer's numerical core: the tolerant float           *)
(* comparison (cmp/float.rs, math/epsilon.rs, math/approx.rs) and the      *)
(* point / vector / tuple algebra (primitives/*.rs, math/primitives/*.rs). *)
(*                                                                         *)
(* f64 values are modelled as decimal floating-point numbers with Digits   *)
(* significant digits, an exponent range of +/- MaxExp, round-to-nearest,  *)
(* overflow to infinity, underflow to zero, and NaN.  A value is a record  *)
(*   [k |-> "fin" | "inf" | "nan", s |-> 1 | -1, m |-> mantissa, e |-> exp]*)
(* standing for s * m * 10^e; a non-zero finite value has a mantissa of    *)
(* exactly Digits digits.  Zero is unsigned in the model.                  *)
(***************************************************************************)
EXTENDS Integers, Sequences, FiniteSets, TLC

VARIABLES op, args, res

vars == <<op, args, res>>

\* ------------------------------------------------------------------------
\* f64: representation
\* ------------------------------------------------------------------------

\* significant decimal digits kept by the model's f64
Digits == 7

\* largest decimal (scientific) exponent of a finite value; beyond it a
\* result overflows to infinity, below -MaxExp it underflows to zero
MaxExp == 40

MantLo == 10 ^ (Digits - 1)

MantHi == 10 ^ Digits

FZero == [k |-> "fin", s |-> 1, m |-> 0, e |-> 0]

FNaN == [k |-> "nan", s |-> 1, m |-> 0, e |-> 0]

FInf(sg) == [k |-> "inf", s |-> sg, m |-> 0, e |-> 0]

INFINITY == FInf(1)

NEG_INFINITY == FInf(-1)

is_nan(x) == x.k = "nan"

is_infinite(x) == x.k = "inf"

is_finite(x) == x.k = "fin"

IsZero(x) == x.k = "fin" /\ x.m = 0

\* number of decimal digits of t >= 1
RECURSIVE NumDigits(_)
NumDigits(t) == IF t < 10 THEN 1 ELSE 1 + NumDigits(t \div 10)

\* the finite value sg * mm * 10^ee (mm already Digits long), or its
\* overflow / underflow
Ranged(sg, mm, ee) ==
    IF ee + (Digits - 1) > MaxExp THEN FInf(sg)
    ELSE IF ee + (Digits - 1) < -MaxExp THEN FZero
    ELSE [k |-> "fin", s |-> sg, m |-> mm, e |-> ee]

\* sg * t * 10^ee rounded to Digits digits (half away from zero)
Round(sg, t, ee) ==
    IF t = 0 THEN FZero
    ELSE LET d == NumDigits(t) IN
         IF d <= Digits
         THEN Ranged(sg, t * 10 ^ (Digits - d), ee - (Digits - d))
         ELSE LET dk == d - Digits
                  p  == 10 ^ dk
                  q  == (t \div p) + (IF 2 * (t % p) >= p THEN 1 ELSE 0)
              IN IF q = MantHi THEN Ranged(sg, MantLo, ee + dk + 1)
                 ELSE Ranged(sg, q, ee + dk)

\* the decimal literal n * 10^ee, e.g. Dec(15, -1) is 1.5
Dec(n, ee) == Round(IF n < 0 THEN -1 ELSE 1, IF n < 0 THEN -n ELSE n, ee)

\* the integer literal n
Lit(n) == Dec(n, 0)

\* ------------------------------------------------------------------------
\* f64: arithmetic
\* ------------------------------------------------------------------------

neg(x) == IF x.k = "nan" \/ IsZero(x) THEN x ELSE [x EXCEPT !.s = -x.s]

abs(x) == IF x.k = "nan" THEN x ELSE [x EXCEPT !.s = 1]

\* both finite and non-zero, hi.e >= lo.e
AddAligned(hi, lo) ==
    LET d == hi.e - lo.e IN
    IF d > Digits + 2 THEN hi
    ELSE LET g  == IF d <= 2 THEN d ELSE 2
             t  == hi.s * hi.m * 10 ^ g + lo.s * (lo.m \div 10 ^ (d - g))
             ee == hi.e - g
         IN Round(IF t < 0 THEN -1 ELSE 1, IF t < 0 THEN -t ELSE t, ee)

add(x, y) ==
    IF x.k = "nan" \/ y.k = "nan" THEN FNaN
    ELSE IF x.k = "inf" /\ y.k = "inf" THEN (IF x.s = y.s THEN x ELSE FNaN)
    ELSE IF x.k = "inf" THEN x
    ELSE IF y.k = "inf" THEN y
    ELSE IF x.m = 0 THEN y
    ELSE IF y.m = 0 THEN x
    ELSE IF x.e >= y.e THEN AddAligned(x, y) ELSE AddAligned(y, x)

sub(x, y) == add(x, neg(y))

\* the leading digits of the product of two Digits-long mantissas, computed
\* in two limbs so that no intermediate exceeds 32 bits
MulMant(m1, m2) ==
    LET limb == 10000
        h1 == m1 \div limb
        l1 == m1 % limb
        h2 == m2 \div limb
        l2 == m2 % limb
        hh == h1 * h2
        mid == h1 * l2 + l1 * h2
        ll == l1 * l2
    IN hh * 1000 + ((mid + (ll \div limb)) \div 10)

mul(x, y) ==
    IF x.k = "nan" \/ y.k = "nan" THEN FNaN
    ELSE IF x.k = "inf" \/ y.k = "inf"
         THEN (IF IsZero(x) \/ IsZero(y) THEN FNaN ELSE FInf(x.s * y.s))
    ELSE IF x.m = 0 \/ y.m = 0 THEN FZero
    ELSE Round(x.s * y.s, MulMant(x.m, y.m), x.e + y.e + 5)

\* long division: n more quotient digits of r / d appended to q
RECURSIVE DivDigits(_, _, _, _)
DivDigits(q, r, d, n) ==
    IF n = 0 THEN q + (IF 2 * r >= d THEN 1 ELSE 0)
    ELSE DivDigits(q * 10 + ((r * 10) \div d), (r * 10) % d, d, n - 1)

div(x, y) ==
    IF x.k = "nan" \/ y.k = "nan" THEN FNaN
    ELSE IF x.k = "inf" THEN (IF y.k = "inf" THEN FNaN ELSE FInf(x.s * y.s))
    ELSE IF y.k = "inf" THEN FZero
    ELSE IF y.m = 0 THEN (IF x.m = 0 THEN FNaN ELSE FInf(x.s))
    ELSE IF x.m = 0 THEN FZero
    ELSE Round(x.s * y.s, DivDigits(x.m \div y.m, x.m % y.m, y.m, 8), x.e - y.e - 8)

recip(x) == div(Lit(1), x)

\* digit-by-digit square root: n more digits appended to the root r with
\* remainder rem (the radicand's remaining digit pairs are all zero)
RECURSIVE SqrtDigits(_, _, _)
SqrtDigits(r, rem, n) ==
    IF n = 0 THEN r + (IF rem > r THEN 1 ELSE 0)
    ELSE LET c == rem * 100
             d == CHOOSE j \in 0..9 :
                     /\ (20 * r + j) * j <= c
                     /\ (j = 9 \/ (20 * r + j + 1) * (j + 1) > c)
         IN SqrtDigits(10 * r + d, c - (20 * r + d) * d, n - 1)

\* floor of the square root of n < 10^8, by bisection on lo..hi
RECURSIVE ISqrt(_, _, _)
ISqrt(n, lo, hi) ==
    IF lo >= hi THEN lo
    ELSE LET mid == (lo + hi + 1) \div 2 IN
         IF mid * mid <= n THEN ISqrt(n, mid, hi) ELSE ISqrt(n, lo, mid - 1)

sqrt(x) ==
    IF x.k = "nan" THEN FNaN
    ELSE IF x.k = "inf" THEN (IF x.s = 1 THEN x ELSE FNaN)
    ELSE IF x.m = 0 THEN FZero
    ELSE IF x.s = -1 THEN FNaN
    ELSE LET odd == (x.e % 2) # 0
             mm  == IF odd THEN x.m * 10 ELSE x.m
             ee  == IF odd THEN x.e - 1 ELSE x.e
             r0  == ISqrt(mm, 0, 9999)
         IN Round(1, SqrtDigits(r0, mm - r0 * r0, 3), (ee \div 2) - 3)

\* ------------------------------------------------------------------------
\* f64: comparison
\* ------------------------------------------------------------------------

\* strict order of two finite values
FinLt(x, y) ==
    IF x.m = 0 THEN y.m # 0 /\ y.s = 1
    ELSE IF y.m = 0 THEN x.s = -1
    ELSE IF x.s # y.s THEN x.s = -1
    ELSE IF x.s = 1 THEN (x.e < y.e \/ (x.e = y.e /\ x.m < y.m))
    ELSE (x.e > y.e \/ (x.e = y.e /\ x.m > y.m))

\* a == b on f64: NaN equals nothing, everything else equals itself
feq(x, y) == x.k # "nan" /\ y.k # "nan" /\ x = y

lt(x, y) ==
    IF x.k = "nan" \/ y.k = "nan" THEN FALSE
    ELSE IF x = y THEN FALSE
    ELSE IF x.k = "inf" THEN x.s = -1
    ELSE IF y.k = "inf" THEN y.s = 1
    ELSE FinLt(x, y)

le(x, y) == feq(x, y) \/ lt(x, y)

ge(x, y) == le(y, x)

gt(x, y) == lt(y, x)

\* f64::max: the larger operand; a NaN operand is ignored
max(x, y) ==
    IF x.k = "nan" THEN y
    ELSE IF y.k = "nan" THEN x
    ELSE IF lt(x, y) THEN y ELSE x

\* ------------------------------------------------------------------------
\* Tolerant comparison
\* ------------------------------------------------------------------------

\* cmp/epsilon.rs: pub const EPSILON: f64 = 1e-5
EPSILON == Dec(1, -5)

\* cmp/epsilon.rs: pub const EPSILON_F64: f64 = 1e-10
EPSILON_F64 == Dec(1, -10)

\* cmp/epsilon.rs: pub const EPSILON_F64_STRICT: f64 = 1e-12
EPSILON_F64_STRICT == Dec(1, -12)

\* cmp/epsilon.rs: pub const EPSILON_F64_LOOSE: f64 = 1e-8
EPSILON_F64_LOOSE == Dec(1, -8)

\* math/approx.rs: Epsilon::TIGHT, "tight epsilon (1e-9)"
TIGHT == Dec(1, -9)

\* math/approx.rs: Epsilon::INTERSECT, "loose epsilon (1e-4)"
INTERSECT == Dec(1, -4)

\* cmp/float.rs: is_equal
is_equal(a, b) ==
    IF feq(a, b) THEN TRUE
    ELSE IF is_nan(a) \/ is_nan(b) THEN FALSE
    ELSE IF is_infinite(a) \/ is_infinite(b) THEN FALSE
    ELSE LET diff == abs(sub(a, b)) IN
         IF lt(max(a, abs(b)), Lit(1)) THEN lt(diff, EPSILON)
         ELSE LET relative_epsilon == mul(EPSILON, max(a, abs(b)))
              IN lt(diff, max(EPSILON, relative_epsilon))

\* math/epsilon.rs: is_equal_float
is_equal_float(a, b) ==
    IF feq(a, b) THEN TRUE
    ELSE IF is_nan(a) \/ is_nan(b) THEN FALSE
    ELSE IF is_infinite(a) \/ is_infinite(b) THEN FALSE
    ELSE LET diff == abs(sub(a, b)) IN
         IF lt(max(abs(a), abs(b)), Lit(1)) THEN lt(diff, EPSILON)
         ELSE LET relative_epsilon == mul(EPSILON, max(abs(a), abs(b)))
              IN lt(diff, max(EPSILON, relative_epsilon))

\* the float_cmp margin test behind approx_eq!(f64, a, b, epsilon = e): equal,
\* or no further apart than e (the macro leaves the ulps margin at zero)
MarginEq(a, b, epsilon) == feq(a, b) \/ le(abs(sub(a, b)), epsilon)

\* variant of approx_eq_epsilon with the margin test turned round
approx_eq_epsilon_ge(a, b, epsilon) ==
    IF is_nan(a) \/ is_nan(b) THEN FALSE
    ELSE IF is_infinite(a) \/ is_infinite(b) THEN FALSE
    ELSE feq(a, b) \/ ge(abs(sub(a, b)), epsilon)

\* math/approx.rs: <f64 as ApproxEq>::approx_eq_epsilon
approx_eq_epsilon(a, b, epsilon) ==
    IF is_nan(a) \/ is_nan(b) THEN FALSE
    ELSE IF is_infinite(a) \/ is_infinite(b) THEN FALSE
    ELSE MarginEq(a, b, epsilon)

\* variant of approx_eq that allows no margin
approx_eq_exact(a, b) == approx_eq_epsilon(a, b, FZero)

\* math/approx.rs: <f64 as ApproxEq>::approx_eq
approx_eq(a, b) == approx_eq_epsilon(a, b, TIGHT)

\* math/approx.rs: <f64 as ApproxEq>::approx_eq_low_precision
approx_eq_low_precision(a, b) == approx_eq_epsilon(a, b, INTERSECT)

\* ------------------------------------------------------------------------
\* Specification of the comparisons: two operands are drawn, one comparison
\* is applied to them
\* ------------------------------------------------------------------------

\* half-width, in grid steps, of the operand grids around each base value
MaxStep == 3

Steps == (-MaxStep)..MaxStep

Signs == {1, -1}

\* operands: half-epsilon grids around 0, +/-1, +/-2 and +/-100, grids at
\* the scale of the tight and the loose tier, and the special values
CmpValues ==
    {Dec(5 * j, -6) : j \in Steps}
    \cup {Dec(sg * (1000000 + 5 * j), -6) : j \in Steps, sg \in Signs}
    \cup {Dec(sg * (2000000 + 10 * j), -6) : j \in Steps, sg \in Signs}
    \cup {Dec(sg * (1000000 + 5 * j), -4) : j \in Steps, sg \in Signs}
    \cup {Dec(5 * j, -10) : j \in Steps}
    \cup {Dec(5 * j, -5) : j \in Steps}
    \cup {FNaN, INFINITY, NEG_INFINITY}

\* the epsilons handed to approx_eq_epsilon
EpsValues ==
    {FZero, EPSILON_F64_STRICT, EPSILON_F64, TIGHT, EPSILON_F64_LOOSE,
     EPSILON, INTERSECT, Lit(1)}

CmpInit ==
    /\ op = "init"
    /\ args \in CmpValues \X CmpValues
    /\ res = FALSE

IsEqual ==
    /\ op = "init"
    /\ op' = "is_equal"
    /\ res' = is_equal(args[1], args[2])
    /\ UNCHANGED args

IsEqualFloat ==
    /\ op = "init"
    /\ op' = "is_equal_float"
    /\ res' = is_equal_float(args[1], args[2])
    /\ UNCHANGED args

ApproxEq ==
    /\ op = "init"
    /\ op' = "approx_eq"
    /\ res' = approx_eq(args[1], args[2])
    /\ UNCHANGED args

ApproxEqLowPrecision ==
    /\ op = "init"
    /\ op' = "approx_eq_low_precision"
    /\ res' = approx_eq_low_precision(args[1], args[2])
    /\ UNCHANGED args

ApproxEqEpsilon ==
    /\ op = "init"
    /\ \E epsilon \in EpsValues :
          /\ op' = "approx_eq_epsilon"
          /\ args' = <<args[1], args[2], epsilon>>
          /\ res' = approx_eq_epsilon(args[1], args[2], epsilon)

CmpNext ==
    \/ IsEqual
    \/ IsEqualFloat
    \/ ApproxEq
    \/ ApproxEqLowPrecision
    \/ ApproxEqEpsilon

SpecCmp == CmpInit /\ [][CmpNext]_vars

\* ------------------------------------------------------------------------
\* Claims about the comparisons
\* ------------------------------------------------------------------------

\* the operand of larger magnitude, whatever its sign or position
LargerMagnitude(a, b) == IF lt(abs(a), abs(b)) THEN abs(b) ELSE abs(a)

\* the threshold rule of the epsilon policy for finite operands
WithinTolerance(a, b) ==
    LET diff == abs(sub(a, b))
        mag  == LargerMagnitude(a, b)
    IN IF lt(mag, Lit(1)) THEN lt(diff, EPSILON)
       ELSE lt(diff, max(EPSILON, mul(EPSILON, mag)))

\* C1: for finite, unequal a and b the standard-tier comparison (is_equal,
\* is_equal_float) is true exactly when |a-b| is below EPSILON if the larger
\* magnitude is below 1.0, and below max(EPSILON, EPSILON * larger magnitude)
\* otherwise, whatever the operands' signs or order.
C1_ThresholdRule ==
    (/\ op \in {"is_equal", "is_equal_float"}
     /\ is_finite(args[1]) /\ is_finite(args[2])
     /\ ~feq(args[1], args[2]))
    => (res <=> WithinTolerance(args[1], args[2]))

\* C2: the tolerant comparison is false whenever either operand is infinite,
\* at every tier, also for the same infinity on both sides.
C2_InfinityNeverEqual ==
    (/\ op \in {"is_equal", "is_equal_float", "approx_eq",
                "approx_eq_low_precision", "approx_eq_epsilon"}
     /\ (is_infinite(args[1]) \/ is_infinite(args[2])))
    => res = FALSE

\* C3: tier monotonicity.  A match of approx_eq_epsilon at one epsilon is a
\* match at every larger epsilon; a tight match (approx_eq) is a
\* low-precision match; and the tier constants are ordered
\* strict <= standard <= loose.
C3_TierMonotonicity ==
    /\ (op = "approx_eq_epsilon" /\ res = TRUE)
          => \A e2 \in EpsValues :
                le(args[3], e2) => approx_eq_epsilon(args[1], args[2], e2)
    /\ (op = "approx_eq" /\ res = TRUE)
          => approx_eq_low_precision(args[1], args[2])
    /\ (op = "approx_eq_low_precision" /\ res = FALSE)
          => ~approx_eq(args[1], args[2])
    /\ le(EPSILON_F64_STRICT, EPSILON_F64)
    /\ le(EPSILON_F64, EPSILON_F64_LOOSE)

\* C3 witness: distinct operands matched at an epsilon that is not the largest
C3_Witness ==
    /\ op = "approx_eq_epsilon"
    /\ res = TRUE
    /\ ~feq(args[1], args[2])
    /\ \E e2 \in EpsValues : lt(args[3], e2)

\* ------------------------------------------------------------------------
\* Vec3 (primitives/vector.rs, math/primitives/vector.rs)
\* ------------------------------------------------------------------------

Vec3_new(x, y, z) == [ty |-> "Vec3", x |-> x, y |-> y, z |-> z]

Vec3_splat(value) == Vec3_new(value, value, value)

Vec3_ZERO == Vec3_splat(FZero)

Vec3_INFINITY == Vec3_splat(INFINITY)

Vec3_NEG_INFINITY == Vec3_splat(NEG_INFINITY)

Vec3_NAN == Vec3_splat(FNaN)

\* Option<T>: None is the empty sequence, Some(v) the one-element sequence
None == <<>>

Some(v) == <<v>>

\* Vec3::w: the implicit w of a vector
Vec3_w(v) == Lit(0)

\* impl_ops!(Vec3, f64, Add, add, +): Vec3 + Vec3
Vec3_add(a, b) == Vec3_new(add(a.x, b.x), add(a.y, b.y), add(a.z, b.z))

\* impl_ops!(Vec3, f64, Sub, sub, -): Vec3 - Vec3
Vec3_sub(a, b) == Vec3_new(sub(a.x, b.x), sub(a.y, b.y), sub(a.z, b.z))

\* impl_ops!(Vec3, f64, Mul, mul, *): Vec3 * f64
Vec3_mul(a, k) == Vec3_new(mul(a.x, k), mul(a.y, k), mul(a.z, k))

\* impl_ops!(Vec3, f64, Div, div, /): Vec3 / f64
Vec3_div(a, k) == Vec3_new(div(a.x, k), div(a.y, k), div(a.z, k))

\* impl Neg for Vec3
Vec3_neg(a) == Vec3_new(neg(a.x), neg(a.y), neg(a.z))

\* Vec3::dot (the implicit w components are part of the sum)
dot(a, b) ==
    add(add(add(mul(a.x, b.x), mul(a.y, b.y)), mul(a.z, b.z)),
        mul(Vec3_w(a), Vec3_w(b)))

\* variant of cross whose z component adds its two products
cross_sum_z(a, b) ==
    Vec3_new(sub(mul(a.y, b.z), mul(a.z, b.y)),
             sub(mul(a.z, b.x), mul(a.x, b.z)),
             add(mul(a.x, b.y), mul(a.y, b.x)))

\* Vec3::cross
cross(a, b) ==
    Vec3_new(sub(mul(a.y, b.z), mul(a.z, b.y)),
             sub(mul(a.z, b.x), mul(a.x, b.z)),
             sub(mul(a.x, b.y), mul(a.y, b.x)))

\* Vec3::length
length(a) == sqrt(dot(a, a))

\* Vec3::length_squared
length_squared(a) == dot(a, a)

\* Vec3::length_recip
length_recip(a) == recip(length(a))

\* primitives/vector.rs: Vec3::normalize
normalize(a) == Vec3_mul(a, length_recip(a))

\* variant of try_normalize guarding only against a zero length
try_normalize_positive(a) ==
    LET len == length(a) IN
    IF is_finite(len) /\ gt(len, FZero) THEN Some(Vec3_div(a, len)) ELSE None

\* variant of try_normalize dividing by the squared length
try_normalize_by_square(a) ==
    LET len == length(a) IN
    IF is_finite(len) /\ ge(len, EPSILON)
    THEN Some(Vec3_div(a, length_squared(a))) ELSE None

\* primitives/vector.rs: Vec3::try_normalize
try_normalize(a) ==
    LET len == length(a) IN
    IF is_finite(len) /\ ge(len, EPSILON) THEN Some(Vec3_div(a, len)) ELSE None

\* variant of normalize_or guarding only against a zero length
normalize_or_positive(a, fallback) ==
    LET len == length(a) IN
    IF is_finite(len) /\ gt(len, FZero) THEN Vec3_mul(a, recip(len))
    ELSE fallback

\* primitives/vector.rs: Vec3::normalize_or
normalize_or(a, fallback) ==
    LET len == length(a) IN
    IF is_finite(len) /\ ge(len, EPSILON) THEN Vec3_mul(a, recip(len))
    ELSE fallback

\* primitives/vector.rs: Vec3::normalize_or_zero
normalize_or_zero(a) == normalize_or(a, Vec3_ZERO)

\* primitives/vector.rs: Vec3::is_normalized
is_normalized(a) == le(abs(sub(length_squared(a), Lit(1))), EPSILON)

\* variant of reflect without the factor 2
reflect_single(a, normal) == Vec3_sub(a, Vec3_mul(normal, dot(a, normal)))

\* primitives/vector.rs: Vec3::reflect, past its debug assertion
reflect(a, normal) == Vec3_sub(a, Vec3_mul(normal, mul(Lit(2), dot(a, normal))))

\* math/primitives/vector.rs: Vec3::magnitude
magnitude(a) == sqrt(add(add(mul(a.x, a.x), mul(a.y, a.y)), mul(a.z, a.z)))

\* math/primitives/vector.rs: impl Div<f64> for Vec3
math_Vec3_div(a, k) ==
    LET inverse == div(Lit(1), k) IN
    Vec3_new(mul(a.x, inverse), mul(a.y, inverse), mul(a.z, inverse))

\* math/primitives/vector.rs: Vec3::normalize
math_normalize(a) ==
    LET m == magnitude(a) IN
    IF ge(m, EPSILON) THEN Some(math_Vec3_div(a, m)) ELSE None

\* primitives/vector.rs: impl PartialEq for Vec3
Vec3_eq(a, b) ==
    /\ is_equal(a.x, b.x)
    /\ is_equal(a.y, b.y)
    /\ is_equal(a.z, b.z)
    /\ is_equal(Vec3_w(a), Vec3_w(b))

\* the outcome of a call that panicked
Panicked == [ty |-> "panic"]

\* ------------------------------------------------------------------------
\* Specification of the vector operations: a vector and a second operand
\* (right-hand side, normal or fallback) are drawn, one operation is applied
\* ------------------------------------------------------------------------

\* largest magnitude of the integer components of the vector grid
MaxComp == 2

GridComp == {Lit(j) : j \in (-MaxComp)..MaxComp}

\* components of the short vectors, in millionths: below, at and above EPSILON
ShortComp == {Dec(j, -6) : j \in {0, 5, 6, 8, 10, 15}}

\* the first operand
VecValues ==
    {Vec3_new(x, y, z) : x \in GridComp, y \in GridComp, z \in GridComp}
    \cup {Vec3_new(x, y, FZero) : x \in ShortComp, y \in ShortComp}
    \cup {Vec3_INFINITY, Vec3_NEG_INFINITY, Vec3_NAN,
          Vec3_new(Dec(1, 30), FZero, FZero),
          Vec3_new(Dec(1, 30), Dec(-1, 30), Dec(1, 30)),
          Vec3_new(Dec(1, -30), FZero, FZero),
          Vec3_new(Dec(1, -30), Dec(1, -30), Dec(1, -30)),
          Vec3_new(INFINITY, FZero, FZero),
          Vec3_new(Dec(6, -1), Dec(8, -1), FZero),
          Vec3_new(Dec(15, -1), Dec(-25, -1), Dec(5, -1)),
          Vec3_new(Lit(3), Lit(4), FZero),
          Vec3_new(Lit(1), Lit(2), Lit(3)),
          Vec3_new(Dec(1, 12), Lit(1), FZero)}

\* the second operand: unit normals, fallbacks and general vectors
RhsValues ==
    {Vec3_new(Lit(1), FZero, FZero), Vec3_new(FZero, Lit(1), FZero),
     Vec3_new(FZero, FZero, Lit(1)), Vec3_new(Lit(-1), FZero, FZero),
     Vec3_new(FZero, Lit(-1), FZero),
     Vec3_new(Dec(6, -1), Dec(8, -1), FZero),
     Vec3_new(FZero, Dec(6, -1), Dec(-8, -1)),
     Vec3_new(Dec(7071068, -7), Dec(7071068, -7), FZero),
     Vec3_ZERO, Vec3_new(FZero, Lit(2), FZero),
     Vec3_new(Lit(1), Lit(2), Lit(3)), Vec3_new(Lit(2), Lit(3), Lit(4)),
     Vec3_splat(Lit(42)), Vec3_INFINITY, Vec3_NAN,
     Vec3_new(Dec(1, 30), FZero, FZero)}

VecInit ==
    /\ op = "init"
    /\ args \in VecValues \X RhsValues
    /\ res = FALSE

Normalize ==
    /\ op = "init"
    /\ op' = "normalize"
    /\ res' = normalize(args[1])
    /\ UNCHANGED args

MathNormalize ==
    /\ op = "init"
    /\ op' = "math_normalize"
    /\ res' = math_normalize(args[1])
    /\ UNCHANGED args

TryNormalize ==
    /\ op = "init"
    /\ op' = "try_normalize"
    /\ res' = try_normalize(args[1])
    /\ UNCHANGED args

NormalizeOr ==
    /\ op = "init"
    /\ op' = "normalize_or"
    /\ res' = normalize_or(args[1], args[2])
    /\ UNCHANGED args

NormalizeOrZero ==
    /\ op = "init"
    /\ op' = "normalize_or_zero"
    /\ res' = normalize_or_zero(args[1])
    /\ UNCHANGED args

\* debug_assert!(normal.is_normalized()) panics in a build with debug
\* assertions and is compiled out otherwise
Reflect ==
    /\ op = "init"
    /\ op' = "reflect"
    /\ \E debug_assertions \in BOOLEAN :
          res' = IF debug_assertions /\ ~is_normalized(args[2])
                 THEN Panicked
                 ELSE reflect(args[1], args[2])
    /\ UNCHANGED args

\* v.reflect(n).reflect(n), with the same build for both calls
ReflectTwice ==
    /\ op = "reflect"
    /\ res # Panicked
    /\ op' = "reflect_twice"
    /\ args' = <<args[1], args[2], res>>
    /\ res' = reflect(res, args[2])

Cross ==
    /\ op = "init"
    /\ op' = "cross"
    /\ res' = cross(args[1], args[2])
    /\ UNCHANGED args

VecNext ==
    \/ Normalize
    \/ MathNormalize
    \/ TryNormalize
    \/ NormalizeOr
    \/ NormalizeOrZero
    \/ Reflect
    \/ ReflectTwice
    \/ Cross

SpecVec == VecInit /\ [][VecNext]_vars

\* ------------------------------------------------------------------------
\* Claims about the vector operations
\* ------------------------------------------------------------------------

\* no component is NaN or infinite
AllFinite(v) == is_finite(v.x) /\ is_finite(v.y) /\ is_finite(v.z)

NonZero(v) == ~(IsZero(v.x) /\ IsZero(v.y) /\ IsZero(v.z))

\* the length is 1.0 at the standard tier
UnitLength(v) == is_equal(length(v), Lit(1))

\* each component of r is the component of v divided by len, at the
\* standard tier
ScaledBy(r, v, len) ==
    /\ is_equal(r.x, div(v.x, len))
    /\ is_equal(r.y, div(v.y, len))
    /\ is_equal(r.z, div(v.z, len))

\* the length passes the zero-guard of the checked normalisations
Normalizable(v) == is_finite(length(v)) /\ ge(length(v), EPSILON)

\* C4: normalize of the zero vector, and of any vector shorter than EPSILON,
\* is the absent value where normalize returns an Option, and never a vector
\* with a NaN or infinite component.
C4_NormalizeShortIsAbsent ==
    /\ (op = "math_normalize" /\ lt(magnitude(args[1]), EPSILON))
          => res = None
    /\ (op = "normalize" /\ lt(length(args[1]), EPSILON))
          => AllFinite(res)

\* C5 as stated: every finite non-zero vector normalizes, through the
\* checked try_normalize, to a vector of length 1.0 at the standard tier.
C5_EveryNonZeroNormalizes ==
    (op = "try_normalize" /\ AllFinite(args[1]) /\ NonZero(args[1]))
    => (res # None /\ UnitLength(res[1]))

\* C5 amended: every vector whose length is finite and at least EPSILON
\* normalizes (normalize, try_normalize) to a vector whose length is 1.0 at
\* the standard tier and whose components are the vector's divided by its
\* length; try_normalize of a shorter or non-finite vector is None.
C5_NormalizableHasUnitLength ==
    /\ (op = "try_normalize" /\ Normalizable(args[1]))
          => (/\ res # None
              /\ UnitLength(res[1])
              /\ ScaledBy(res[1], args[1], length(args[1])))
    /\ (op = "try_normalize" /\ ~Normalizable(args[1])) => res = None
    /\ (op = "normalize" /\ Normalizable(args[1]))
          => (/\ UnitLength(res)
              /\ ScaledBy(res, args[1], length(args[1])))

\* C5 witness: a vector that is not a unit vector was normalized
C5_Witness ==
    /\ op = "try_normalize"
    /\ res # None
    /\ ~is_normalized(args[1])
    /\ ~IsZero(args[1].x) /\ ~IsZero(args[1].y) /\ ~IsZero(args[1].z)

\* C6: normalize_or gives back exactly the fallback when the length is below
\* EPSILON or not finite, the unit-length scaling of the vector otherwise;
\* normalize_or_zero is normalize_or with the zero vector as fallback.
C6_NormalizeOrFallback ==
    /\ (op = "normalize_or"
          /\ (lt(length(args[1]), EPSILON) \/ ~is_finite(length(args[1]))))
          => res = args[2]
    /\ (op = "normalize_or"
          /\ ~(lt(length(args[1]), EPSILON) \/ ~is_finite(length(args[1]))))
          => (/\ UnitLength(res)
              /\ ScaledBy(res, args[1], length(args[1])))
    /\ op = "normalize_or_zero" => res = normalize_or(args[1], Vec3_ZERO)
    /\ op \in {"normalize_or", "normalize_or_zero"} => res # Panicked

\* C6 witness: a short non-zero vector was replaced by a non-zero fallback
C6_Witness ==
    /\ op = "normalize_or"
    /\ NonZero(args[1])
    /\ lt(length(args[1]), EPSILON)
    /\ NonZero(args[2])
    /\ res = args[2]

\* the dot product over x, y, z
Dot3(a, b) == add(add(mul(a.x, b.x), mul(a.y, b.y)), mul(a.z, b.z))

\* C7: for a unit-length normal n, reflect(v, n) is v - n * (2 * dot(v, n))
\* in each component; reflect((1,-1,0), (0,1,0)) is (1,1,0).
C7_ReflectFormula ==
    (op = "reflect" /\ is_normalized(args[2]))
    => (/\ res # Panicked
        /\ LET v == args[1]
               n == args[2]
               k == mul(Lit(2), Dot3(v, n))
           IN /\ res.x = sub(v.x, mul(n.x, k))
              /\ res.y = sub(v.y, mul(n.y, k))
              /\ res.z = sub(v.z, mul(n.z, k))
        /\ (/\ args[1] = Vec3_new(Lit(1), Lit(-1), Lit(0))
            /\ args[2] = Vec3_new(Lit(0), Lit(1), Lit(0)))
              => res = Vec3_new(Lit(1), Lit(1), Lit(0)))

\* C7 witness: a vector with a component along the normal was reflected
C7_Witness ==
    /\ op = "reflect"
    /\ is_normalized(args[2])
    /\ AllFinite(args[1])
    /\ ~IsZero(Dot3(args[1], args[2]))
    /\ res # args[1]

\* C8: cross(a, b) is (a.y*b.z - a.z*b.y, a.z*b.x - a.x*b.z,
\* a.x*b.y - a.y*b.x), and cross(b, a) is its negation.
C8_CrossAntisymmetric ==
    op = "cross"
    => LET a == args[1]
           b == args[2]
       IN /\ res.x = sub(mul(a.y, b.z), mul(a.z, b.y))
          /\ res.y = sub(mul(a.z, b.x), mul(a.x, b.z))
          /\ res.z = sub(mul(a.x, b.y), mul(a.y, b.x))
          /\ cross(b, a) = Vec3_neg(res)
          /\ (a = Vec3_new(Lit(1), Lit(2), Lit(3))
                /\ b = Vec3_new(Lit(2), Lit(3), Lit(4)))
                => (/\ res = Vec3_new(Lit(-1), Lit(2), Lit(-1))
                    /\ cross(b, a) = Vec3_new(Lit(1), Lit(-2), Lit(1)))

\* C8 witness: a cross product with three non-zero finite components
C8_Witness ==
    /\ op = "cross"
    /\ AllFinite(res)
    /\ ~IsZero(res.x) /\ ~IsZero(res.y) /\ ~IsZero(res.z)

\* ------------------------------------------------------------------------
\* Point3 (primitives/point.rs, math/primitives/point.rs) and the
\* 4-component tuple (primitives/tuple.rs)
\* ------------------------------------------------------------------------

Point3_new(x, y, z) == [ty |-> "Point3", x |-> x, y |-> y, z |-> z]

\* Point3::w: the implicit w of a point
Point3_w(p) == Lit(1)

\* impl Add<Vec3> for Point3
Point3_add_Vec3(p, v) == Point3_new(add(p.x, v.x), add(p.y, v.y), add(p.z, v.z))

\* impl Sub<Point3> for Point3
Point3_sub_Point3(p, q) == Vec3_new(sub(p.x, q.x), sub(p.y, q.y), sub(p.z, q.z))

\* impl Sub<Vec3> for Point3
Point3_sub_Vec3(p, v) == Point3_new(sub(p.x, v.x), sub(p.y, v.y), sub(p.z, v.z))

\* primitives/point.rs: impl From<Point3> for [f64; 4]
Point3_to_array4(p) == <<p.x, p.y, p.z, Lit(0)>>

\* primitives/point.rs: impl From<Point3> for (f64, f64, f64, f64)
Point3_to_tuple4(p) == <<p.x, p.y, p.z, Lit(0)>>

\* math/primitives/point.rs: impl From<Point3> for [f64; 4]
math_Point3_to_array4(p) == <<p.x, p.y, p.z, Lit(1)>>

\* primitives/vector.rs: impl From<Vec3> for [f64; 4]
Vec3_to_array4(v) == <<v.x, v.y, v.z, Lit(0)>>

\* primitives/vector.rs: impl From<Vec3> for (f64, f64, f64, f64)
Vec3_to_tuple4(v) == <<v.x, v.y, v.z, Lit(0)>>

\* Result<T, E>
Ok(v) == [ok |-> TRUE, val |-> v]

Err(msg) == [ok |-> FALSE, val |-> msg]

\* primitives/tuple.rs: Tuple::new
Tuple_new(x, y, z, w) == [ty |-> "Tuple", x |-> x, y |-> y, z |-> z, w |-> w]

\* primitives/tuple.rs: point
point(x, y, z) == Tuple_new(x, y, z, Lit(1))

\* primitives/tuple.rs: vector
vector(x, y, z) == Tuple_new(x, y, z, Lit(0))

\* Tuple4 built from its four components in the order x, y, z, w
Tuple4_from(a) == Tuple_new(a[1], a[2], a[3], a[4])

\* primitives/tuple.rs: Precision::STANDARD, the tolerance the tuple tests
\* pin at 1e-6
Precision_STANDARD == Dec(1, -6)

\* primitives/tuple.rs: is_equal_float
Tuple_is_equal_float(a, b) ==
    IF feq(a, b) THEN TRUE
    ELSE IF is_nan(a) \/ is_nan(b) THEN FALSE
    ELSE IF is_infinite(a) \/ is_infinite(b) THEN FALSE
    ELSE LET diff == abs(sub(a, b)) IN
         IF lt(max(abs(a), abs(b)), Lit(1)) THEN lt(diff, Precision_STANDARD)
         ELSE LET relative_epsilon == mul(Precision_STANDARD, max(abs(a), abs(b)))
              IN lt(diff, max(Precision_STANDARD, relative_epsilon))

\* primitives/tuple.rs: Tuple::is_point
is_point(t) == Tuple_is_equal_float(t.w, Lit(1))

\* primitives/tuple.rs: Tuple::is_vector
is_vector(t) == Tuple_is_equal_float(t.w, Lit(0))

\* primitives/tuple.rs: impl Add for Tuple
Tuple_add(a, b) ==
    Tuple_new(add(a.x, b.x), add(a.y, b.y), add(a.z, b.z), add(a.w, b.w))

\* variant of Tuple_sub that adds the w components
Tuple_sub_add_w(a, b) ==
    Tuple_new(sub(a.x, b.x), sub(a.y, b.y), sub(a.z, b.z), add(a.w, b.w))

\* primitives/tuple.rs: impl Sub for Tuple
Tuple_sub(a, b) ==
    Tuple_new(sub(a.x, b.x), sub(a.y, b.y), sub(a.z, b.z), sub(a.w, b.w))

\* primitives/point.rs: impl TryFrom<Tuple4> for Point3
Point3_try_from(t) ==
    IF ~is_equal(t.w, Lit(1)) THEN Err("Invalid w component for Point3")
    ELSE Ok(Point3_new(t.x, t.y, t.z))

\* variant of Vec3_try_from without the test of w
Vec3_try_from_unchecked(t) == Ok(Vec3_new(t.x, t.y, t.z))

\* primitives/vector.rs: impl TryFrom<Tuple4> for Vec3
Vec3_try_from(t) ==
    IF ~is_equal(t.w, Lit(0)) THEN Err("Invalid w component for Vec3")
    ELSE Ok(Vec3_new(t.x, t.y, t.z))

\* ------------------------------------------------------------------------
\* Specification of the point / vector / tuple operations: two coordinate
\* triples are drawn, an operation builds its operands from them
\* ------------------------------------------------------------------------

\* coordinates of the first operand
CoordValues ==
    {<<x, y, z>> : x \in GridComp, y \in GridComp, z \in GridComp}
    \cup {<<Dec(43, -1), Dec(-42, -1), Dec(31, -1)>>,
          <<Lit(3), Lit(-2), Lit(5)>>,
          <<Dec(1, 30), Dec(-1, 30), Dec(1, -30)>>}

\* coordinates of the second operand
RhsCoordValues ==
    {<<FZero, FZero, FZero>>, <<Lit(1), FZero, FZero>>,
     <<Lit(-2), Lit(3), Lit(1)>>, <<Lit(5), Lit(6), Lit(7)>>,
     <<Dec(5, -1), Dec(-15, -1), Dec(25, -1)>>,
     <<Dec(1, -5), Dec(1, -6), Dec(-1, -5)>>,
     <<Dec(1, 30), Dec(1, 30), Dec(1, 30)>>}

AsPoint3(c) == Point3_new(c[1], c[2], c[3])

AsVec3(c) == Vec3_new(c[1], c[2], c[3])

\* the w of a tuple made by point() or vector()
TupleW == {Lit(0), Lit(1)}

PtInit ==
    /\ op = "init"
    /\ args \in CoordValues \X RhsCoordValues
    /\ res = FALSE

PointAddVec ==
    /\ op = "init"
    /\ op' = "point_add_vec"
    /\ args' = <<AsPoint3(args[1]), AsVec3(args[2])>>
    /\ res' = Point3_add_Vec3(AsPoint3(args[1]), AsVec3(args[2]))

PointSubPoint ==
    /\ op = "init"
    /\ op' = "point_sub_point"
    /\ args' = <<AsPoint3(args[1]), AsPoint3(args[2])>>
    /\ res' = Point3_sub_Point3(AsPoint3(args[1]), AsPoint3(args[2]))

PointSubVec ==
    /\ op = "init"
    /\ op' = "point_sub_vec"
    /\ args' = <<AsPoint3(args[1]), AsVec3(args[2])>>
    /\ res' = Point3_sub_Vec3(AsPoint3(args[1]), AsVec3(args[2]))

VecAddVec ==
    /\ op = "init"
    /\ op' = "vec_add_vec"
    /\ args' = <<AsVec3(args[1]), AsVec3(args[2])>>
    /\ res' = Vec3_add(AsVec3(args[1]), AsVec3(args[2]))

VecSubVec ==
    /\ op = "init"
    /\ op' = "vec_sub_vec"
    /\ args' = <<AsVec3(args[1]), AsVec3(args[2])>>
    /\ res' = Vec3_sub(AsVec3(args[1]), AsVec3(args[2]))

TupleAdd ==
    /\ op = "init"
    /\ op' = "tuple_add"
    /\ \E w1 \in TupleW, w2 \in TupleW :
          LET a == Tuple_new(args[1][1], args[1][2], args[1][3], w1)
              b == Tuple_new(args[2][1], args[2][2], args[2][3], w2)
          IN /\ args' = <<a, b>>
             /\ res' = Tuple_add(a, b)

TupleSub ==
    /\ op = "init"
    /\ op' = "tuple_sub"
    /\ \E w1 \in TupleW, w2 \in TupleW :
          LET a == Tuple_new(args[1][1], args[1][2], args[1][3], w1)
              b == Tuple_new(args[2][1], args[2][2], args[2][3], w2)
          IN /\ args' = <<a, b>>
             /\ res' = Tuple_sub(a, b)

PointW ==
    /\ op = "init"
    /\ op' = "point_w"
    /\ args' = <<AsPoint3(args[1])>>
    /\ res' = Point3_w(AsPoint3(args[1]))

VecW ==
    /\ op = "init"
    /\ op' = "vec_w"
    /\ args' = <<AsVec3(args[1])>>
    /\ res' = Vec3_w(AsVec3(args[1]))

PointToArray4 ==
    /\ op = "init"
    /\ op' = "point_to_array4"
    /\ args' = <<AsPoint3(args[1])>>
    /\ res' = Point3_to_array4(AsPoint3(args[1]))

PointToTuple4 ==
    /\ op = "init"
    /\ op' = "point_to_tuple4"
    /\ args' = <<AsPoint3(args[1])>>
    /\ res' = Point3_to_tuple4(AsPoint3(args[1]))

MathPointToArray4 ==
    /\ op = "init"
    /\ op' = "math_point_to_array4"
    /\ args' = <<AsPoint3(args[1])>>
    /\ res' = math_Point3_to_array4(AsPoint3(args[1]))

VecToArray4 ==
    /\ op = "init"
    /\ op' = "vec_to_array4"
    /\ args' = <<AsVec3(args[1])>>
    /\ res' = Vec3_to_array4(AsVec3(args[1]))

VecToTuple4 ==
    /\ op = "init"
    /\ op' = "vec_to_tuple4"
    /\ args' = <<AsVec3(args[1])>>
    /\ res' = Vec3_to_tuple4(AsVec3(args[1]))

\* Point3 -> [f64; 4] -> Tuple4 -> Point3::try_from
PointRoundTrip ==
    /\ op = "init"
    /\ op' = "point_round_trip"
    /\ args' = <<AsPoint3(args[1])>>
    /\ res' = Point3_try_from(Tuple4_from(Point3_to_array4(AsPoint3(args[1]))))

\* Point3::try_from(t) and Vec3::try_from(t), t.is_point() and
\* t.is_vector() for a tuple t whose w is at, near or far from 0 and 1
TryFromTuple4 ==
    /\ op = "init"
    /\ op' = "try_from_tuple4"
    /\ \E w \in {Lit(0), Lit(1), Lit(-1), Lit(2), Dec(5, -1), Dec(5, -6),
                 Dec(-5, -6), Dec(1, -5), Dec(2, -5), Dec(1000005, -6),
                 Dec(999995, -6), Dec(100001, -5), Dec(99998, -5),
                 Dec(1, 30), FNaN, INFINITY, NEG_INFINITY} :
          LET t == Tuple_new(args[1][1], args[1][2], args[1][3], w) IN
          /\ args' = <<t>>
          /\ res' = [point |-> Point3_try_from(t), vec |-> Vec3_try_from(t),
                     is_point |-> is_point(t), is_vector |-> is_vector(t)]

PtNext ==
    \/ PointAddVec
    \/ PointSubPoint
    \/ PointSubVec
    \/ VecAddVec
    \/ VecSubVec
    \/ TupleAdd
    \/ TupleSub
    \/ PointW
    \/ VecW
    \/ PointToArray4
    \/ PointToTuple4
    \/ MathPointToArray4
    \/ VecToArray4
    \/ VecToTuple4
    \/ PointRoundTrip
    \/ TryFromTuple4

SpecPt == PtInit /\ [][PtNext]_vars

\* ------------------------------------------------------------------------
\* Claims about points, vectors and tuples
\* ------------------------------------------------------------------------

\* r holds, in x, y, z, the sums of the components of a and sg times b
Componentwise(r, a, b, sg) ==
    /\ r.x = (IF sg = 1 THEN add(a.x, b.x) ELSE sub(a.x, b.x))
    /\ r.y = (IF sg = 1 THEN add(a.y, b.y) ELSE sub(a.y, b.y))
    /\ r.z = (IF sg = 1 THEN add(a.z, b.z) ELSE sub(a.z, b.z))

\* C9: Point + Vector is a Point, Point - Point a Vector, Point - Vector a
\* Point, Vector +/- Vector a Vector, each componentwise on x, y, z; the w of
\* a tuple sum / difference is the sum / difference of the operands' w, so
\* point + vector is a point and point - point is a vector.
C9_CombinationRules ==
    /\ op = "point_add_vec"
          => res.ty = "Point3" /\ Componentwise(res, args[1], args[2], 1)
    /\ op = "point_sub_point"
          => res.ty = "Vec3" /\ Componentwise(res, args[1], args[2], -1)
    /\ op = "point_sub_vec"
          => res.ty = "Point3" /\ Componentwise(res, args[1], args[2], -1)
    /\ op = "vec_add_vec"
          => res.ty = "Vec3" /\ Componentwise(res, args[1], args[2], 1)
    /\ op = "vec_sub_vec"
          => res.ty = "Vec3" /\ Componentwise(res, args[1], args[2], -1)
    /\ op = "tuple_add"
          => (/\ Componentwise(res, args[1], args[2], 1)
              /\ res.w = add(args[1].w, args[2].w)
              /\ (args[1].w = Lit(1) /\ args[2].w = Lit(0)) => is_point(res)
              /\ (args[1].w = Lit(0) /\ args[2].w = Lit(0)) => is_vector(res))
    /\ op = "tuple_sub"
          => (/\ Componentwise(res, args[1], args[2], -1)
              /\ res.w = sub(args[1].w, args[2].w)
              /\ (args[1].w = Lit(1) /\ args[2].w = Lit(1)) => is_vector(res)
              /\ (args[1].w = Lit(1) /\ args[2].w = Lit(0)) => is_point(res)
              /\ (args[1].w = Lit(0) /\ args[2].w = Lit(0)) => is_vector(res))

\* C9 witness: two points with different coordinates were subtracted as
\* tuples, giving a vector
C9_Witness ==
    /\ op = "tuple_sub"
    /\ args[1].w = Lit(1) /\ args[2].w = Lit(1)
    /\ ~IsZero(res.x) /\ ~IsZero(res.y) /\ ~IsZero(res.z)
    /\ is_vector(res) /\ ~is_point(res)

\* C10: a Point3 has w = 1: its w() and every conversion to a 4-component
\* array or 4-tuple give w = 1 (a Vec3 gives w = 0), so Point3 -> 4
\* components -> checked Tuple4 -> Point3 succeeds with the original point.
C10_PointHasWOne ==
    /\ op = "point_w" => res = Lit(1)
    /\ op = "vec_w" => res = Lit(0)
    /\ op \in {"point_to_array4", "point_to_tuple4", "math_point_to_array4"}
          => (/\ res[1] = args[1].x /\ res[2] = args[1].y /\ res[3] = args[1].z
              /\ res[4] = Lit(1))
    /\ op \in {"vec_to_array4", "vec_to_tuple4"}
          => (/\ res[1] = args[1].x /\ res[2] = args[1].y /\ res[3] = args[1].z
              /\ res[4] = Lit(0))
    /\ op = "point_round_trip" => (res.ok /\ res.val = args[1])

\* ------------------------------------------------------------------------
\* Matrix<N> (primitives/matrix.rs): a record [n, buffer] whose buffer holds
\* the n * n elements row-major; rows and columns count from 0 as in the
\* source, the buffer sequence from 1
\* ------------------------------------------------------------------------

\* impl From<[f64; N * N]> for Matrix<N>
Matrix_from(n, buffer) == [n |-> n, buffer |-> buffer]

\* variant of Matrix_try_from that accepts a longer slice and cuts it
Matrix_try_from_truncating(n, src) ==
    IF Len(src) < n * n THEN Err("slice length mismatch")
    ELSE Ok(Matrix_from(n, SubSeq(src, 1, n * n)))

\* impl TryFrom<&[f64]> for Matrix<N>
Matrix_try_from(n, src) ==
    IF Len(src) # n * n THEN Err("slice length mismatch")
    ELSE Ok(Matrix_from(n, src))

\* impl Index<(usize, usize)> for Matrix<N>
Matrix_index(m, row, col) == m.buffer[row * m.n + col + 1]

\* variant of diagonal that fills the first row
diagonal_first_row(n, value) ==
    Matrix_from(n, [j \in 1..(n * n) |-> IF j <= n THEN value ELSE FZero])

\* Matrix::diagonal
diagonal(n, value) ==
    Matrix_from(n, [j \in 1..(n * n) |->
                       IF \E i \in 0..(n - 1) : j - 1 = i * n + i
                       THEN value ELSE FZero])

\* Matrix::IDENTITY
IDENTITY(n) == diagonal(n, Lit(1))

\* variant of transpose that copies each element to its own place
transpose_copy(m) ==
    Matrix_from(m.n, [j \in 1..(m.n * m.n) |-> m.buffer[j]])

\* Matrix::transpose: buffer[col * N + row] = self.buffer[i], for every i
\* with row = i / N and col = i % N
transpose(m) ==
    Matrix_from(m.n, [j \in 1..(m.n * m.n) |->
                         LET i == CHOOSE i \in 0..(m.n * m.n - 1) :
                                     (i % m.n) * m.n + (i \div m.n) = j - 1
                         IN m.buffer[i + 1]])

\* Iterator::sum over f64: the terms added left to right, from 0.0
RECURSIVE FSum(_)
FSum(terms) ==
    IF terms = <<>> THEN FZero
    ELSE add(FSum(SubSeq(terms, 1, Len(terms) - 1)), terms[Len(terms)])

\* variant of Matrix_mul that reads rhs by rows
Matrix_mul_by_rows(a, rhs) ==
    Matrix_from(a.n, [j \in 1..(a.n * a.n) |->
        LET row == (j - 1) \div a.n
            col == (j - 1) % a.n
        IN FSum([k \in 1..a.n |->
                    mul(Matrix_index(a, row, k - 1),
                        Matrix_index(rhs, col, k - 1))])])

\* impl Mul for Matrix<N>
Matrix_mul(a, rhs) ==
    Matrix_from(a.n, [j \in 1..(a.n * a.n) |->
        LET row == (j - 1) \div a.n
            col == (j - 1) % a.n
        IN FSum([k \in 1..a.n |->
                    mul(Matrix_index(a, row, k - 1),
                        Matrix_index(rhs, k - 1, col))])])

\* variant of Matrix_mul_Tuple4 that reads the matrix by columns
Matrix_mul_Tuple4_by_columns(m, t) ==
    LET v == <<t.x, t.y, t.z, t.w>> IN
    IF \E row \in 0..3, col \in 0..(m.n - 1) : row * m.n + col >= m.n * m.n
    THEN Panicked
    ELSE Tuple4_from([r \in 1..4 |->
             FSum([c \in 1..m.n |-> mul(Matrix_index(m, c - 1, r - 1), v[c])])])

\* impl Mul<Tuple4> for Matrix<N>: the four rows 0..4 are read whatever N
\* is, and an index past the buffer panics
Matrix_mul_Tuple4(m, t) ==
    LET v == <<t.x, t.y, t.z, t.w>> IN
    IF \E row \in 0..3, col \in 0..(m.n - 1) : row * m.n + col >= m.n * m.n
    THEN Panicked
    ELSE Tuple4_from([r \in 1..4 |->
             FSum([c \in 1..m.n |-> mul(Matrix_index(m, r - 1, c - 1), v[c])])])

\* matrices::Submatrix, as specified: the matrix without the given row and
\* column
submatrix(m, row, col) ==
    LET k == m.n - 1 IN
    Matrix_from(k, [j \in 1..(k * k) |->
        LET r == (j - 1) \div k
            c == (j - 1) % k
        IN Matrix_index(m, IF r < row THEN r ELSE r + 1,
                           IF c < col THEN c ELSE c + 1)])

RECURSIVE determinant(_), cofactor(_, _, _)

\* matrices::Determinant, as specified: a*d - b*c for N = 2, the Laplace
\* expansion along the first row for N > 2; the 1x1 minor of a 2x2 matrix
\* is its single element
determinant(m) ==
    IF m.n = 1 THEN m.buffer[1]
    ELSE IF m.n = 2
    THEN sub(mul(m.buffer[1], m.buffer[4]), mul(m.buffer[2], m.buffer[3]))
    ELSE FSum([c \in 1..m.n |->
                  mul(Matrix_index(m, 0, c - 1), cofactor(m, 0, c - 1))])

\* matrices::Minor and matrices::Cofactor, as specified:
\* minor(row, col) * (-1)^(row + col)
cofactor(m, row, col) ==
    LET minor == determinant(submatrix(m, row, col)) IN
    IF (row + col) % 2 = 1 THEN neg(minor) ELSE minor

\* matrices::Inverse::invertible, as specified: the determinant is not
\* approximately zero at the tight tier
invertible(m) == ~approx_eq(determinant(m), FZero)

\* matrices::Inverse::inverse, as specified: the adjugate method,
\* inverse[col][row] = cofactor(row, col) / determinant, absent when the
\* matrix is not invertible
inverse(m) ==
    IF ~invertible(m) THEN None
    ELSE LET det == determinant(m) IN
         Some(Matrix_from(m.n, [j \in 1..(m.n * m.n) |->
                  LET col == (j - 1) \div m.n
                      row == (j - 1) % m.n
                  IN div(cofactor(m, row, col), det)]))

\* ------------------------------------------------------------------------
\* Specification of the matrix operations: a dimension and a flat slice are
\* drawn, an operation is applied to the slice or to the matrix built from it
\* ------------------------------------------------------------------------

\* largest coefficient of the generated slices' entries
MaxCoef == 3

MatInit ==
    /\ op = "init"
    /\ res = FALSE
    /\ \/ \E n \in 2..4, a \in 0..MaxCoef, b \in 0..MaxCoef, c \in 0..MaxCoef :
            \E len \in {0, n * n - 1, n * n, n * n + 1} :
               args = <<n, [j \in 1..len |->
                   LET i == j - 1
                       d == IF i \div n = i % n THEN 1 ELSE 0
                   IN Lit(((a * i * i + b * (i % n) * (i \div n) + c * i + d)
                           % 5) - 2)]>>
       \/ \E n \in 2..4 : args = <<n, IDENTITY(n).buffer>>
       \/ args \in
            {<<4, <<Lit(-4), Lit(2), Lit(-2), Lit(-3), Lit(9), Lit(6), Lit(2),
                    Lit(6), Lit(0), Lit(-5), Lit(1), Lit(-5), Lit(0), Lit(0),
                    Lit(0), Lit(0)>> >>,
             <<4, <<Lit(-5), Lit(2), Lit(6), Lit(-8), Lit(1), Lit(-5), Lit(1),
                    Lit(8), Lit(7), Lit(7), Lit(-6), Lit(-7), Lit(1), Lit(-3),
                    Lit(7), Lit(4)>> >>,
             <<4, <<Lit(1), Lit(2), Lit(3), Lit(4), Dec(55, -1), Dec(65, -1),
                    Dec(75, -1), Dec(85, -1), Lit(9), Lit(10), Lit(11),
                    Lit(12), Dec(135, -1), Dec(145, -1), Dec(155, -1),
                    Dec(165, -1)>> >>,
             <<3, <<Lit(1), Lit(2), Lit(6), Lit(-5), Lit(8), Lit(-4), Lit(2),
                    Lit(6), Lit(4)>> >>,
             <<2, <<Dec(5, -1), Dec(15, -1), Dec(-25, -1), Lit(4)>> >>,
             <<2, <<Dec(1, -5), Lit(0), Lit(0), Dec(1, -5)>> >>,
             <<2, <<Dec(1, -4), Lit(0), Lit(0), Dec(1, -4)>> >>}

TryFrom ==
    /\ op = "init"
    /\ op' = "try_from"
    /\ res' = Matrix_try_from(args[1], args[2])
    /\ UNCHANGED args

Transpose ==
    /\ op = "init"
    /\ Len(args[2]) = args[1] * args[1]
    /\ op' = "transpose"
    /\ args' = <<Matrix_from(args[1], args[2])>>
    /\ res' = transpose(Matrix_from(args[1], args[2]))

MatMul ==
    /\ op = "init"
    /\ Len(args[2]) = args[1] * args[1]
    /\ op' = "mat_mul"
    /\ LET m == Matrix_from(args[1], args[2]) IN
       \E rhs \in {IDENTITY(m.n), m, transpose(m)} :
          /\ args' = <<m, rhs>>
          /\ res' = Matrix_mul(m, rhs)

MatMulTuple ==
    /\ op = "init"
    /\ Len(args[2]) = args[1] * args[1]
    /\ op' = "mat_mul_tuple"
    /\ LET m == Matrix_from(args[1], args[2]) IN
       \E t \in {Tuple_new(Lit(1), Lit(2), Lit(3), Lit(1)),
                 Tuple_new(Lit(1), Lit(2), Lit(3), Lit(4)),
                 Tuple_new(Dec(-25, -1), Lit(0), Dec(5, -1), Lit(0))} :
          /\ args' = <<m, t>>
          /\ res' = Matrix_mul_Tuple4(m, t)

Invertible ==
    /\ op = "init"
    /\ Len(args[2]) = args[1] * args[1]
    /\ op' = "invertible"
    /\ args' = <<Matrix_from(args[1], args[2])>>
    /\ res' = invertible(Matrix_from(args[1], args[2]))

Inverse ==
    /\ op = "init"
    /\ Len(args[2]) = args[1] * args[1]
    /\ op' = "inverse"
    /\ args' = <<Matrix_from(args[1], args[2])>>
    /\ res' = inverse(Matrix_from(args[1], args[2]))

MatNext ==
    \/ TryFrom
    \/ Transpose
    \/ MatMul
    \/ MatMulTuple
    \/ Invertible
    \/ Inverse

SpecMat == MatInit /\ [][MatNext]_vars

\* ------------------------------------------------------------------------
\* Claims about matrices
\* ------------------------------------------------------------------------

\* C11: a Matrix<N> is built from a flat slice exactly when the slice has
\* N * N elements, and then element (row, col) is slice[row * N + col]; any
\* other length is an error, never a truncated or padded matrix.
C11_TryFromLength ==
    op = "try_from"
    => LET n == args[1]
           src == args[2]
       IN IF Len(src) = n * n
          THEN /\ res.ok
               /\ res.val.n = n
               /\ Len(res.val.buffer) = n * n
               /\ \A row \in 0..(n - 1), col \in 0..(n - 1) :
                     Matrix_index(res.val, row, col) = src[row * n + col + 1]
          ELSE ~res.ok

\* C11 witness: a slice one element too long was refused
C11_Witness ==
    /\ op = "try_from"
    /\ Len(args[2]) = args[1] * args[1] + 1
    /\ ~res.ok

\* C12: transpose(M)[col][row] = M[row][col] for all row, col < N, the
\* operand is unchanged, and the transpose of the transpose is M.
C12_Transpose ==
    op = "transpose"
    => LET m == args[1] IN
       /\ res.n = m.n
       /\ \A row \in 0..(m.n - 1), col \in 0..(m.n - 1) :
             Matrix_index(res, col, row) = Matrix_index(m, row, col)
       /\ transpose(res) = m

\* C12 witness: a 3x3 matrix that is not symmetric was transposed
C12_Witness ==
    /\ op = "transpose"
    /\ args[1].n = 3
    /\ res # args[1]

\* C13: M * IDENTITY = M for N in {2, 3, 4}; IDENTITY has 1 on the diagonal
\* and 0 elsewhere; the product is result[i][j] = sum over k of
\* M[i][k] * rhs[k][j].
C13_IdentityLaw ==
    op = "mat_mul"
    => LET m == args[1]
           rhs == args[2]
           idx == 0..(m.n - 1)
       IN /\ \A i \in idx, j \in idx :
                Matrix_index(res, i, j)
                   = FSum([k \in 1..m.n |->
                              mul(Matrix_index(m, i, k - 1),
                                  Matrix_index(rhs, k - 1, j))])
          /\ rhs = IDENTITY(m.n)
                => /\ \A i \in idx, j \in idx :
                         Matrix_index(rhs, i, j)
                            = (IF i = j THEN Lit(1) ELSE FZero)
                   /\ res = m

\* C13 witness: a 4x4 matrix other than the identity was multiplied by it
C13_Witness ==
    /\ op = "mat_mul"
    /\ args[1].n = 4
    /\ args[2] = IDENTITY(4)
    /\ args[1] # IDENTITY(4)
    /\ res = args[1]

\* C14: for a 4x4 matrix M and a tuple t, (M * t)[row] is the sum over col
\* of M[row][col] * t[col], t read as x, y, z, w; IDENTITY * t = t.
C14_MatrixTimesTuple ==
    (op = "mat_mul_tuple" /\ args[1].n = 4)
    => LET m == args[1]
           t == args[2]
           Row(r) == add(add(add(mul(Matrix_index(m, r, 0), t.x),
                                 mul(Matrix_index(m, r, 1), t.y)),
                             mul(Matrix_index(m, r, 2), t.z)),
                         mul(Matrix_index(m, r, 3), t.w))
       IN /\ res # Panicked
          /\ res.x = Row(0) /\ res.y = Row(1)
          /\ res.z = Row(2) /\ res.w = Row(3)
          /\ m = IDENTITY(4) => res = t

\* C14 witness: a 4x4 matrix mapped a tuple to a different tuple
C14_Witness ==
    /\ op = "mat_mul_tuple"
    /\ args[1].n = 4
    /\ res # Panicked
    /\ res # args[2]
    /\ ~IsZero(res.w)

\* C15: for an invertible matrix M (N <= 4) inverse(M) is present, its
\* entries are inverse[col][row] = cofactor(row, col) / determinant(M), and
\* M * inverse(M) equals the identity at the standard tolerance.
C15_InverseLaw ==
    (op = "inverse" /\ invertible(args[1]))
    => LET m == args[1]
           idx == 0..(m.n - 1)
       IN /\ res # None
          /\ \A row \in idx, col \in idx :
                Matrix_index(res[1], col, row)
                   = div(cofactor(m, row, col), determinant(m))
          /\ \A i \in idx, j \in idx :
                is_equal(Matrix_index(Matrix_mul(m, res[1]), i, j),
                         IF i = j THEN Lit(1) ELSE FZero)

\* C15 witness: a 4x4 matrix with an inverse that is not a diagonal matrix
C15_Witness ==
    /\ op = "inverse"
    /\ args[1].n = 4
    /\ res # None
    /\ ~IsZero(Matrix_index(res[1], 0, 1))
    /\ ~IsZero(Matrix_index(res[1], 3, 2))

\* C16: a matrix whose determinant is zero, or zero within the tight
\* tolerance, is not invertible, and its inverse is the absent value, not a
\* panic and not a division by the determinant.
C16_SingularHasNoInverse ==
    /\ (op = "invertible" /\ le(abs(determinant(args[1])), TIGHT))
          => res = FALSE
    /\ (op = "inverse" /\ le(abs(determinant(args[1])), TIGHT))
          => res = None

\* C16 witness: the inverse of a matrix with a small non-zero determinant
\* was asked for
C16_Witness ==
    /\ op = "inverse"
    /\ ~IsZero(determinant(args[1]))
    /\ le(abs(determinant(args[1])), TIGHT)
    /\ res = None

\* ------------------------------------------------------------------------
\* Color3 (primitives/color.rs) and Canvas (graphics/canvas.rs).  A u8 is an
\* integer in 0..255; a String is the sequence of its characters.
\* ------------------------------------------------------------------------

\* Color3::new
Color3_new(r, g, b) == [ty |-> "Color3", r |-> r, g |-> g, b |-> b]

\* variant of Color3_from_bytes scaling by 1.0 / 256.0
Color3_from_bytes_256(rgb) ==
    LET INV_256 == div(Lit(1), Lit(256)) IN
    Color3_new(mul(Lit(rgb[1]), INV_256), mul(Lit(rgb[2]), INV_256),
               mul(Lit(rgb[3]), INV_256))

\* impl From<[u8; 3]> for Color3: each byte times INV_255 = 1.0 / 255.0
Color3_from_bytes(rgb) ==
    LET INV_255 == div(Lit(1), Lit(255)) IN
    Color3_new(mul(Lit(rgb[1]), INV_255), mul(Lit(rgb[2]), INV_255),
               mul(Lit(rgb[3]), INV_255))

\* variant of Color3_to_bytes after the scale_color left in a comment of
\* graphics/canvas.rs: (value * 256.0).clamp(0.0, 255.0) as u8
Color3_to_bytes_scale_256(color) ==
    LET clamp(x, lo, hi) ==
            IF is_nan(x) THEN x
            ELSE IF lt(x, lo) THEN lo ELSE IF gt(x, hi) THEN hi ELSE x
        trunc_as_u8(x) ==
            IF is_nan(x) \/ IsZero(x) THEN 0
            ELSE IF -x.e > Digits THEN 0
            ELSE x.m \div (10 ^ (-x.e))
        channel(c) == trunc_as_u8(clamp(mul(c, Lit(256)), Lit(0), Lit(255)))
    IN <<channel(color.r), channel(color.g), channel(color.b)>>

\* impl From<Color3> for [u8; 3]:
\* (c.clamp(0.0, 1.0) * 255.0).round() as u8 for each channel
Color3_to_bytes(color) ==
    LET clamp(x, lo, hi) ==
            IF is_nan(x) THEN x
            ELSE IF lt(x, lo) THEN lo ELSE IF gt(x, hi) THEN hi ELSE x
        \* f64::round (half away from zero) followed by the saturating cast;
        \* x is NaN or within 0.0..=255.0 here
        round_as_u8(x) ==
            IF is_nan(x) \/ IsZero(x) THEN 0
            ELSE IF -x.e > Digits + 1 THEN 0
            ELSE LET p == 10 ^ (-x.e) IN
                 (x.m \div p) + (IF 2 * (x.m % p) >= p THEN 1 ELSE 0)
        channel(c) == round_as_u8(mul(clamp(c, Lit(0), Lit(1)), Lit(255)))
    IN <<channel(color.r), channel(color.g), channel(color.b)>>

\* variant of ppm_content without the 70-character limit
ppm_content_unwrapped(canvas) ==
    IF canvas.width = 0 THEN Panicked
    ELSE LET
        Digit(d) == <<SubSeq(<<"0", "1", "2", "3", "4", "5", "6", "7", "8",
                              "9">>, d + 1, d + 1)[1]>>
        to_string(n) ==
            IF n < 10 THEN Digit(n)
            ELSE IF n < 100 THEN Digit(n \div 10) \o Digit(n % 10)
            ELSE Digit(n \div 100) \o Digit((n \div 10) % 10) \o Digit(n % 10)
        RECURSIVE Components(_, _)
        Components(first, count) ==
            IF count = 0 THEN <<>>
            ELSE Color3_to_bytes(canvas.pixels[first])
                    \o Components(first + 1, count - 1)
        RECURSIVE Emit(_, _)
        Emit(comps, i) ==
            IF i > Len(comps) THEN <<"\n">>
            ELSE (IF i = 1 THEN <<>> ELSE <<" ">>) \o to_string(comps[i])
                    \o Emit(comps, i + 1)
        RECURSIVE Rows(_)
        Rows(y) ==
            IF y >= Len(canvas.pixels) \div canvas.width THEN <<>>
            ELSE Emit(Components(y * canvas.width + 1, canvas.width), 1)
                    \o Rows(y + 1)
    IN Rows(0)

\* Canvas::ppm_content: for each chunk of width pixels (chunks_exact panics
\* for a chunk size of 0), current_line_len starts at 0; each component of
\* each pixel's bytes is written after its separator ("" when
\* current_line_len is 0, else " "), which is chosen before the 70-character
\* test; when the test fails a '\n' is pushed first and current_line_len is
\* reset to 0; a '\n' ends the row.  Emit gives the text pushed from
\* component i on, Rows the text pushed from row y on.
ppm_content(canvas) ==
    IF canvas.width = 0 THEN Panicked
    ELSE LET
        Digit(d) == <<SubSeq(<<"0", "1", "2", "3", "4", "5", "6", "7", "8",
                              "9">>, d + 1, d + 1)[1]>>
        \* u8::to_string
        to_string(n) ==
            IF n < 10 THEN Digit(n)
            ELSE IF n < 100 THEN Digit(n \div 10) \o Digit(n % 10)
            ELSE Digit(n \div 100) \o Digit((n \div 10) % 10) \o Digit(n % 10)
        RECURSIVE Components(_, _)
        Components(first, count) ==
            IF count = 0 THEN <<>>
            ELSE Color3_to_bytes(canvas.pixels[first])
                    \o Components(first + 1, count - 1)
        RECURSIVE Emit(_, _, _)
        Emit(comps, i, current_line_len) ==
            IF i > Len(comps) THEN <<"\n">>
            ELSE LET component_str == to_string(comps[i])
                     separator == IF current_line_len = 0
                                  THEN <<>> ELSE <<" ">>
                     wrap == current_line_len + Len(separator)
                                + Len(component_str) > 70
                 IN (IF wrap THEN <<"\n">> ELSE <<>>)
                       \o separator \o component_str
                       \o Emit(comps, i + 1,
                               (IF wrap THEN 0 ELSE current_line_len)
                                  + Len(separator) + Len(component_str))
        RECURSIVE Rows(_)
        Rows(y) ==
            IF y >= Len(canvas.pixels) \div canvas.width THEN <<>>
            ELSE Emit(Components(y * canvas.width + 1, canvas.width), 1, 0)
                    \o Rows(y + 1)
    IN Rows(0)

\* Canvas::to_ppm: the header "P3\n{width} {height}\n255\n", then the content
to_ppm(canvas) ==
    LET Digit(d) == <<SubSeq(<<"0", "1", "2", "3", "4", "5", "6", "7", "8",
                              "9">>, d + 1, d + 1)[1]>>
        RECURSIVE usize_to_string(_)
        usize_to_string(n) ==
            IF n < 10 THEN Digit(n)
            ELSE usize_to_string(n \div 10) \o Digit(n % 10)
        ppm_header == <<"P", "3", "\n">> \o usize_to_string(canvas.width)
                         \o <<" ">> \o usize_to_string(canvas.height)
                         \o <<"\n", "2", "5", "5", "\n">>
    IN IF ppm_content(canvas) = Panicked THEN Panicked
       ELSE ppm_header \o ppm_content(canvas)

\* variant of Canvas_new allocating width + height pixels
Canvas_new_by_sum(width, height) ==
    [width |-> width, height |-> height,
     pixels |-> [i \in 1..(width + height) |->
                    Color3_new(Lit(0), Lit(0), Lit(0))]]

\* Canvas::new: width, height and vec![Color3::black(); width * height]
Canvas_new(width, height) ==
    [width |-> width, height |-> height,
     pixels |-> [i \in 1..(width * height) |->
                    Color3_new(Lit(0), Lit(0), Lit(0))]]

\* variant of Canvas_index_mut slicing from start to the end of the buffer
Canvas_index_mut_to_end(canvas, index) ==
    LET start == canvas.width * index IN
    IF start > Len(canvas.pixels) THEN Panicked
    ELSE [start |-> start, end |-> Len(canvas.pixels)]

\* impl IndexMut<usize> for Canvas (Index<usize> takes the same range):
\* the slice pixels[start..start + width] with start = width * index, as its
\* bounds; slicing past the end of the buffer panics
Canvas_index_mut(canvas, index) ==
    LET start == canvas.width * index IN
    IF start + canvas.width > Len(canvas.pixels) THEN Panicked
    ELSE [start |-> start, end |-> start + canvas.width]

\* variant of write_pixel assigning self[x][y]
write_pixel_transposed(canvas, x, y, color) ==
    LET row == Canvas_index_mut(canvas, x) IN
    IF row = Panicked THEN Panicked
    ELSE IF y >= row.end - row.start THEN Panicked
    ELSE [canvas EXCEPT !.pixels[row.start + y + 1] = color]

\* Canvas::write_pixel: self[y][x] = color; indexing the row slice at or
\* past its length panics
write_pixel(canvas, x, y, color) ==
    LET row == Canvas_index_mut(canvas, y) IN
    IF row = Panicked THEN Panicked
    ELSE IF x >= row.end - row.start THEN Panicked
    ELSE [canvas EXCEPT !.pixels[row.start + x + 1] = color]

\* ------------------------------------------------------------------------
\* Specification of the colour conversions, the canvas and the PPM export: a
\* byte triple, a colour or a canvas is drawn, or a canvas is constructed;
\* bytes are converted to a colour and back, a colour to bytes, a canvas to
\* its PPM text; a constructed canvas is written to with write_pixel and
\* through pixels_mut.  For a constructed canvas args holds the requested
\* width and height, the writes that succeeded and the last write attempted,
\* each as <<x, y, colour>>, and res holds the canvas.
\* ------------------------------------------------------------------------

\* largest canvas width
MaxWidth == 7

\* largest canvas height
MaxHeight == 2

\* largest width and height of a canvas that is written to
MaxSide == 2

\* largest number of writes to a canvas
MaxWrites == 2

GfxInit ==
    /\ op = "init"
    /\ LET ChannelK == {-500, -1, 0, 1, 2, 40, 100, 298, 300, 500, 502, 998,
                        999, 1000, 1001, 1700}
           Palette == {Color3_new(Lit(0), Lit(0), Lit(0)),
                       Color3_new(Lit(1), Lit(1), Lit(1)),
                       Color3_new(Dec(15, -1), Dec(5, -1), Dec(-5, -1)),
                       Color3_new(Dec(4, -2), Dec(3, -1), Dec(999, -3))}
       IN \/ \E r \in 0..255, g \in {0, 64, 128, 192, 255},
                b \in {0, 127, 255} :
                /\ args = <<"bytes", <<r, g, b>> >>
                /\ res = FALSE
          \/ \E k \in ChannelK \X ChannelK \X ChannelK :
                /\ args = <<"color", Color3_new(Dec(k[1], -3), Dec(k[2], -3),
                                                Dec(k[3], -3)), k>>
                /\ res = FALSE
          \/ \E x \in {FNaN, INFINITY, NEG_INFINITY}, k \in ChannelK :
                /\ args = <<"color", Color3_new(x, Dec(k, -3), x),
                            <<k, k, k>> >>
                /\ res = FALSE
          \/ \E width \in 0..MaxWidth, height \in 0..MaxHeight,
                c1 \in Palette, c2 \in Palette :
                \E split \in 0..width :
                   /\ args = <<"canvas",
                               [width |-> width, height |-> height,
                                pixels |-> [i \in 1..(width * height) |->
                                   IF (i - 1) % width < split THEN c1
                                   ELSE c2]]>>
                   /\ res = FALSE
          \/ \E width \in 0..MaxSide, height \in 0..MaxSide :
                /\ args = <<"new", width, height, <<>>, <<>> >>
                /\ res = Canvas_new(width, height)

ColorFromBytes ==
    /\ op = "init"
    /\ args[1] = "bytes"
    /\ op' = "from_bytes"
    /\ res' = Color3_from_bytes(args[2])
    /\ UNCHANGED args

ColorToBytes ==
    /\ \/ op = "init" /\ args[1] = "color" /\ args' = args
       \/ op = "from_bytes" /\ args' = <<"bytes", args[2], res>>
    /\ op' = "to_bytes"
    /\ res' = Color3_to_bytes(IF op = "init" THEN args[2] ELSE res)

ToPpm ==
    /\ op = "init"
    /\ args[1] = "canvas"
    /\ op' = "to_ppm"
    /\ res' = to_ppm(args[2])
    /\ UNCHANGED args

\* canvas.write_pixel(x, y, color) on a constructed canvas, x and y in or
\* just out of range; a panic leaves the canvas as it was, since the
\* assignment comes after the index computations
WritePixel ==
    /\ args[1] = "new"
    /\ op \in {"init", "write_pixel", "pixels_mut"}
    /\ Len(args[4]) < MaxWrites
    /\ \E x \in 0..args[2], y \in 0..args[3],
          color \in {Color3_new(Lit(1), Lit(0), Lit(0)),
                     Color3_new(Lit(1), Lit(1), Lit(1))} :
          LET written == write_pixel(res, x, y, color) IN
          IF written = Panicked
          THEN /\ op' = "write_pixel_panicked"
               /\ args' = <<"new", args[2], args[3], args[4], <<x, y, color>> >>
               /\ res' = res
          ELSE /\ op' = "write_pixel"
               /\ args' = <<"new", args[2], args[3],
                            Append(args[4], <<x, y, color>>), <<x, y, color>> >>
               /\ res' = written

\* canvas.pixels_mut()[i] = color on a constructed canvas, i in or just out
\* of range of the slice
PixelsMut ==
    /\ args[1] = "new"
    /\ op \in {"init", "write_pixel", "pixels_mut"}
    /\ Len(args[4]) < MaxWrites
    /\ \E i \in 0..Len(res.pixels),
          color \in {Color3_new(Lit(1), Lit(0), Lit(0)),
                     Color3_new(Lit(1), Lit(1), Lit(1))} :
          IF i >= Len(res.pixels)
          THEN /\ op' = "pixels_mut_panicked"
               /\ args' = <<"new", args[2], args[3], args[4], <<i, color>> >>
               /\ res' = res
          ELSE LET x == i % res.width
                   y == i \div res.width
               IN /\ op' = "pixels_mut"
                  /\ args' = <<"new", args[2], args[3],
                               Append(args[4], <<x, y, color>>),
                               <<x, y, color>> >>
                  /\ res' = [res EXCEPT !.pixels[i + 1] = color]

GfxNext ==
    \/ ColorFromBytes
    \/ ColorToBytes
    \/ ToPpm
    \/ WritePixel
    \/ PixelsMut

SpecGfx == GfxInit /\ [][GfxNext]_vars

\* C17: colour byte round trip: converting a byte triple (r, g, b) to a
\* Color3 and that colour back to bytes reproduces (r, g, b) exactly
C17_ByteRoundTrip ==
    (op = "to_bytes" /\ args[1] = "bytes") => res = args[2]

C17_Witness ==
    /\ op = "to_bytes"
    /\ args[1] = "bytes"
    /\ args[2] = <<200, 64, 127>>
    /\ res = <<200, 64, 127>>

\* The nearest integer to 255 * k / 1000, halves away from zero, for a
\* channel of k thousandths clamped to 0..1000
NearestByte(k) ==
    IF k <= 0 THEN 0
    ELSE IF k >= 1000 THEN 255
    ELSE (2 * 255 * k + 1000) \div 2000

\* C18: converting a Color3 to bytes maps each channel c independently to
\* round(clamp(c, 0, 1) * 255): a channel <= 0 gives 0, a channel >= 1 gives
\* 255, every byte is within 0..=255 and the mapping is monotone
\* non-decreasing in c
C18_ClampScaleRound ==
    (op = "to_bytes" /\ args[1] = "color") =>
        LET c == <<args[2].r, args[2].g, args[2].b>> IN
        /\ \A i \in 1..3 :
            /\ res[i] \in 0..255
            /\ le(c[i], Lit(0)) => res[i] = 0
            /\ ge(c[i], Lit(1)) => res[i] = 255
            /\ is_finite(c[i]) => res[i] = NearestByte(args[3][i])
        /\ \A i \in 1..3, j \in 1..3 :
            le(c[i], c[j]) => res[i] <= res[j]

C18_Witness ==
    /\ op = "to_bytes"
    /\ args[1] = "color"
    /\ args[3] = <<-500, 100, 1700>>
    /\ res = <<0, 26, 255>>

\* Reading a PPM text t (a sequence of characters)

IsDigitChar(ch) == ch \in {"0", "1", "2", "3", "4", "5", "6", "7", "8", "9"}

DigitValue(ch) == CHOOSE d \in 0..9 :
    <<"0", "1", "2", "3", "4", "5", "6", "7", "8", "9">>[d + 1] = ch

\* the position of the newline that ends the three header lines
HeaderEnd(t) ==
    CHOOSE h \in 1..Len(t) :
        /\ t[h] = "\n"
        /\ Cardinality({x \in 1..(h - 1) : t[x] = "\n"}) = 2

\* the positions in the pixel data where a maximal run of digits starts
NumberStarts(t) ==
    {i \in (HeaderEnd(t) + 1)..Len(t) :
        IsDigitChar(t[i]) /\ ~IsDigitChar(t[i - 1])}

\* the k-th smallest of the positions starts
NumberStart(starts, k) ==
    CHOOSE i \in starts : Cardinality({x \in starts : x < i}) = k - 1

\* the value of the run of digits starting at i; -1 when longer than 3
NumberAt(t, i) ==
    LET isd(j) == j <= Len(t) /\ IsDigitChar(t[j])
        d(j) == DigitValue(t[j])
    IN IF ~isd(i + 1) THEN d(i)
       ELSE IF ~isd(i + 2) THEN 10 * d(i) + d(i + 1)
       ELSE IF ~isd(i + 3) THEN 100 * d(i) + 10 * d(i + 1) + d(i + 2)
       ELSE -1

\* the k-th byte of the canvas in row-major order, three per pixel
CanvasByte(canvas, k) ==
    Color3_to_bytes(canvas.pixels[((k - 1) \div 3) + 1])[((k - 1) % 3) + 1]

\* the numbers of the pixel data are the bytes of the canvas, in order
NumbersAreCanvasBytes(t, canvas) ==
    LET starts == NumberStarts(t) IN
    /\ Cardinality(starts) = 3 * canvas.width * canvas.height
    /\ \A k \in 1..(3 * canvas.width * canvas.height) :
          NumberAt(t, NumberStart(starts, k)) = CanvasByte(canvas, k)

\* C19: for a canvas of width >= 1, no line of the to_ppm output is longer
\* than 70 characters, a line break never splits a number (the numbers read
\* from the text are the canvas bytes), each canvas row starts on a new line
\* and the output ends with a newline
C19_LineLimit ==
    (op = "to_ppm" /\ args[2].width >= 1) =>
        /\ res # Panicked
        /\ \A i \in 1..(Len(res) - 70) : \E j \in i..(i + 70) : res[j] = "\n"
        /\ NumbersAreCanvasBytes(res, args[2])
        /\ LET starts == NumberStarts(res) IN
           \A y \in 0..(args[2].height - 1) :
              res[NumberStart(starts, 3 * args[2].width * y + 1) - 1] = "\n"
        /\ res[Len(res)] = "\n"

\* a canvas whose rows are wrapped has been exported
C19_Witness ==
    /\ op = "to_ppm"
    /\ args[2].width = 6
    /\ args[2].height = 2
    /\ Cardinality({i \in 1..Len(res) : res[i] = "\n"}) = 3 + 2 * 2

\* C20: in the to_ppm output every pixel-data line consists of decimal
\* integers in 0..=255 separated by exactly one space, with no space at the
\* start or end of any line, wrapped lines included, and the integers read in
\* order are the byte conversions of the pixels in row-major order,
\* 3 * width * height values in total
C20_PixelDataLines ==
    (op = "to_ppm" /\ args[2].width >= 1) =>
        /\ res # Panicked
        /\ \A i \in (HeaderEnd(res) + 1)..Len(res) :
              /\ IsDigitChar(res[i]) \/ res[i] \in {" ", "\n"}
              /\ res[i] = " " =>
                    /\ IsDigitChar(res[i - 1])
                    /\ i < Len(res) /\ IsDigitChar(res[i + 1])
        /\ \A i \in NumberStarts(res) : NumberAt(res, i) \in 0..255
        /\ NumbersAreCanvasBytes(res, args[2])

\* the colour of the last write to (x, y) among writes, black when there is
\* none
LastWritten(writes, x, y) ==
    LET at == {k \in 1..Len(writes) : writes[k][1] = x /\ writes[k][2] = y}
    IN IF at = {} THEN Color3_new(Lit(0), Lit(0), Lit(0))
       ELSE writes[CHOOSE k \in at : \A j \in at : j <= k][3]

\* C21: a new canvas has the requested width and height and every pixel
\* black; after in-bounds writes the width and the height are unchanged and
\* each pixel (x, y), read as canvas[y][x], holds the colour of the last
\* write to it, or black if it was never written
C21_LastWriteWins ==
    (args[1] = "new") =>
        /\ res.width = args[2]
        /\ res.height = args[3]
        /\ \A x \in 0..(args[2] - 1), y \in 0..(args[3] - 1) :
              /\ res.width * y + x + 1 \in DOMAIN res.pixels
              /\ res.pixels[res.width * y + x + 1] = LastWritten(args[4], x, y)

\* a pixel written twice, the second time with another colour, next to a
\* pixel never written
C21_Witness ==
    /\ op = "write_pixel"
    /\ args[1] = "new" /\ args[2] = 2 /\ args[3] = 2
    /\ Len(args[4]) = 2
    /\ args[4][1][1] = 1 /\ args[4][1][2] = 0
    /\ args[4][2][1] = 1 /\ args[4][2][2] = 0
    /\ args[4][1][3] # args[4][2][3]
    /\ res.pixels[2] = args[4][2][3]
    /\ res.pixels[3] = Color3_new(Lit(0), Lit(0), Lit(0))

\* C25: canvas size invariant: after Canvas::new(w, h) and any sequence of
\* write_pixel calls and writes through pixels_mut, the pixel buffer holds
\* exactly width * height colours and the width and height are still w and h
C25_CanvasSize ==
    (args[1] = "new") =>
        /\ Len(res.pixels) = res.width * res.height
        /\ res.width = args[2]
        /\ res.height = args[3]

C25_Witness ==
    /\ op = "pixels_mut"
    /\ args[1] = "new" /\ args[2] = 2 /\ args[3] = 1
    /\ Len(args[4]) = 2
    /\ Len(res.pixels) = 2

C27_EmptyCanvasExport ==
    (op = "to_ppm") =>
        /\ res # Panicked
        /\ (args[2].width = 0 \/ args[2].height = 0) =>
              LET digits == <<"0", "1", "2", "3", "4", "5", "6", "7", "8",
                              "9">>
              IN res = <<"P", "3", "\n", digits[args[2].width + 1], " ",
                         digits[args[2].height + 1], "\n", "2", "5", "5",
                         "\n">>

\* C22: try_normalize returns the absent value exactly when the vector's
\* length is not finite or is strictly below EPSILON (1e-5); a vector whose
\* length is finite and at least EPSILON yields Some(v / length)
C22_TryNormalizeThreshold ==
    (op = "try_normalize") =>
        LET len == length(args[1]) IN
        /\ (res = None) <=> (~is_finite(len) \/ lt(len, Dec(1, -5)))
        /\ (is_finite(len) /\ ge(len, Dec(1, -5)))
              => res = Some(Vec3_div(args[1], len))

\* a vector whose length is exactly EPSILON has been normalized
C22_Witness ==
    /\ op = "try_normalize"
    /\ args[1] = Vec3_new(FZero, Dec(1, -5), FZero)
    /\ length(args[1]) = Dec(1, -5)
    /\ res = Some(Vec3_new(FZero, Lit(1), FZero))

\* C23: the tolerant equality is symmetric: is_equal(a, b) = is_equal(b, a)
\* for all a and b, and so == on a Vec3 (likewise on Point3, Color3 and
\* Matrix, which compare component by component with is_equal) gives the
\* same answer with its operands swapped
C23_IsEqualSymmetric ==
    (op = "is_equal") =>
        /\ res = is_equal(args[2], args[1])
        /\ Vec3_eq(Vec3_splat(args[1]), Vec3_splat(args[2]))
              = Vec3_eq(Vec3_splat(args[2]), Vec3_splat(args[1]))

\* C24: for every N in {2, 3, 4}, multiplying a Matrix<N> by a Tuple4
\* returns a tuple, without indexing outside the matrix's N * N buffer or
\* outside the tuple's 4 components (either of which panics)
C24_MatrixTupleInBounds ==
    (op = "mat_mul_tuple" /\ args[1].n \in {2, 3, 4}) =>
        /\ res # Panicked
        /\ \A row \in 0..3, col \in 0..(args[1].n - 1) :
              /\ row * args[1].n + col < Len(args[1].buffer)
              /\ col < 4

\* C28: point and vector classification are mutually exclusive: for a Tuple4
\* t at most one of Point3::try_from(t) (w approximately 1) and
\* Vec3::try_from(t) (w approximately 0) succeeds, a failed conversion
\* returns an error, a successful one keeps x, y, z unchanged, and is_point
\* and is_vector are never both true
C28_PointVectorExclusive ==
    (op = "try_from_tuple4") =>
        LET t == args[1] IN
        /\ ~(res.point.ok /\ res.vec.ok)
        /\ res.point.ok <=> WithinTolerance(t.w, Lit(1)) \/ feq(t.w, Lit(1))
        /\ res.vec.ok <=> WithinTolerance(t.w, Lit(0)) \/ feq(t.w, Lit(0))
        /\ res.point.ok => res.point.val = Point3_new(t.x, t.y, t.z)
        /\ res.vec.ok => res.vec.val = Vec3_new(t.x, t.y, t.z)
        /\ ~res.point.ok => res.point.val = "Invalid w component for Point3"
        /\ ~res.vec.ok => res.vec.val = "Invalid w component for Vec3"
        /\ ~(res.is_point /\ res.is_vector)

\* a tuple whose w is near but not equal to 0 converts to a Vec3 only
C28_Witness ==
    /\ op = "try_from_tuple4"
    /\ args[1].w = Dec(5, -6)
    /\ args[1].x = Lit(1)
    /\ res.vec.ok /\ res.vec.val.x = Lit(1)
    /\ ~res.point.ok
    /\ ~res.is_point

\* C29 as stated: reflection is an involution that preserves length: for
\* every vector v and unit-length normal n, reflect(reflect(v, n), n) = v
\* and length_squared(reflect(v, n)) = length_squared(v), the equalities
\* read as the crate's tolerant == on Vec3 and is_equal on f64
C29_ReflectInvolution ==
    (op = "reflect_twice" /\ is_normalized(args[2])) =>
        /\ Vec3_eq(res, args[1])
        /\ is_equal(length_squared(args[3]), length_squared(args[1]))

\* C29 amended: for every finite vector v whose squared length is finite and
\* every unit-length normal n, each component of reflect(reflect(v, n), n)
\* is within EPSILON * max(1, largest magnitude of a component of v) of the
\* component of v, and length_squared(reflect(v, n)) is within
\* EPSILON * max(1, length_squared(v)) of length_squared(v)
C29_ReflectInvolutionUpToRounding ==
    (/\ op = "reflect_twice"
     /\ is_normalized(args[2])
     /\ AllFinite(args[1])
     /\ is_finite(length_squared(args[1]))) =>
        LET v == args[1]
            scale == max(Lit(1), max(abs(v.x), max(abs(v.y), abs(v.z))))
            tol == mul(EPSILON, scale)
            len2 == length_squared(v)
        IN /\ lt(abs(sub(res.x, v.x)), tol)
           /\ lt(abs(sub(res.y, v.y)), tol)
           /\ lt(abs(sub(res.z, v.z)), tol)
           /\ lt(abs(sub(length_squared(args[3]), len2)),
                 mul(EPSILON, max(Lit(1), len2)))

\* a vector with a component along an oblique normal was reflected twice
C29_Witness ==
    /\ op = "reflect_twice"
    /\ args[1] = Vec3_new(Lit(1), Lit(2), Lit(3))
    /\ args[2] = Vec3_new(Dec(6, -1), Dec(8, -1), FZero)
    /\ args[3] # args[1]
    /\ Vec3_eq(res, args[1])

\* ------------------------------------------------------------------------
\* The projectile examples (examples/projectile.rs, ch02_projectile.rs,
\* 01_projectile.rs, 02_projectile.rs): a projectile starts at point(0, 1, 0)
\* and is moved by tick while the loop condition on position.y holds.  args
\* holds the example, its environment and, for the example that draws, the
\* canvas size; res holds the projectile, the number of iterations and the
\* (x, y) of the write_pixel calls issued by the last iteration.
\* ------------------------------------------------------------------------

\* largest number of loop iterations followed
MaxTicks == 250

\* variant of tick that leaves the gravity out
tick_without_gravity(p, e) ==
    [position |-> Point3_add_Vec3(p.position, p.velocity),
     velocity |-> Vec3_add(p.velocity, e.wind)]

\* tick: position = position + velocity,
\* velocity = velocity + gravity + wind (falling is the first sum)
tick(p, e) ==
    CHOOSE next \in
        {[position |-> Point3_add_Vec3(p.position, p.velocity),
          velocity |-> Vec3_add(falling, e.wind)] :
            falling \in {Vec3_add(p.velocity, e.gravity)}} : TRUE

\* main, up to the loop: the projectile and the environment of each example
ProjInit ==
    /\ op = "init"
    /\ LET e == [gravity |-> Vec3_new(Lit(0), Dec(-1, -1), Lit(0)),
                 wind |-> Vec3_new(Dec(-1, -2), Lit(0), Lit(0))]
           one_one == Vec3_new(Lit(1), Lit(1), Lit(0))
           \* normalize_unchecked: *self / self.length()
           unit == Vec3_div(one_one, length(one_one))
           fast == Vec3_mul(normalize_or_zero(
                               Vec3_new(Lit(1), Dec(18, -1), Lit(0))),
                            Dec(1125, -2))
       IN \E example \in {"projectile", "ch02_projectile", "01_projectile",
                          "02_projectile"} :
            /\ args = <<example, e, [width |-> 900, height |-> 550]>>
            /\ res = [position |-> Point3_new(Lit(0), Lit(1), Lit(0)),
                      velocity |-> IF example = "02_projectile"
                                   THEN fast ELSE unit,
                      count |-> 0,
                      writes |-> {}]

\* one evaluation of the while condition: position.y() > 0.0 (>= 0.0 in
\* ch02_projectile and 01_projectile), then either the loop body or the exit.
\* The body of 02_projectile rounds the position to usize x and y and calls
\* write_pixel(w, height - h) for w in x..=x + 5 and h in y..=y + 5 with
\* 0 < w < width and 0 < h < height; every body ends with tick.
Loop ==
    /\ op \in {"init", "loop"}
    /\ LET y_pos == res.position.y
           continue == IF args[1] \in {"ch02_projectile", "01_projectile"}
                       THEN ge(y_pos, Lit(0)) ELSE gt(y_pos, Lit(0))
           \* f64::round (half away from zero) as usize: NaN and negative
           \* values give 0, values past the canvas sizes a number past them
           round_as_usize(f) ==
               IF is_nan(f) \/ IsZero(f) THEN 0
               ELSE IF is_infinite(f) THEN (IF f.s < 0 THEN 0 ELSE 1000000)
               ELSE IF f.s < 0 THEN 0
               ELSE IF f.e > -1 THEN 1000000
               ELSE IF -f.e > Digits + 1 THEN 0
               ELSE LET p == 10 ^ (-f.e) IN
                    (f.m \div p) + (IF 2 * (f.m % p) >= p THEN 1 ELSE 0)
           x == round_as_usize(res.position.x)
           y == round_as_usize(y_pos)
           canvas == args[3]
           next == tick(res, args[2])
       IN IF ~continue
          THEN /\ op' = "done"
               /\ UNCHANGED <<args, res>>
          ELSE /\ res.count < MaxTicks
               /\ op' = "loop"
               /\ UNCHANGED args
               /\ res' = [position |-> next.position,
                          velocity |-> next.velocity,
                          count |-> res.count + 1,
                          writes |->
                             IF args[1] # "02_projectile" THEN {}
                             ELSE {<<w, canvas.height - h>> :
                                     <<w, h>> \in
                                       {wh \in (x..(x + 5)) \X (y..(y + 5)) :
                                          /\ wh[1] > 0 /\ wh[1] < canvas.width
                                          /\ wh[2] > 0
                                          /\ wh[2] < canvas.height}}]

\* the loop is sequential code: an iteration that can run does run
SpecProj == ProjInit /\ [][Loop]_vars /\ WF_vars(Loop)

\* C30: the projectile simulation of the examples terminates: repeating tick
\* from position (0, 1, 0) eventually reaches position.y <= 0 and the while
\* loop exits; in the example that draws, every write_pixel issued inside
\* the loop has 0 < x < width and 0 < y < height
C30_ProjectileLands ==
    /\ [](\A wr \in res.writes :
             /\ 0 < wr[1] /\ wr[1] < args[3].width
             /\ 0 < wr[2] /\ wr[2] < args[3].height)
    /\ <>(op = "done" /\ le(res.position.y, Lit(0)))

\* the drawing example has left its loop after drawing in its last
\* iteration
C30_Witness ==
    /\ op = "done"
    /\ args[1] = "02_projectile"
    /\ res.count > 100
    /\ le(res.position.y, Lit(0))
    /\ res.writes # {}

====
